---- MODULE Spec2Model ----
(***************************************************************************)
(* The Tauri shell of the Siri billing app (src-tauri/src/main.rs): the    *)
(* backend sidecar's lifecycle (log cleanup, spawn, output relay, window   *)
(* close with graceful shutdown, final cleanup on exit), the printer       *)
(* commands and the install_update command.                                *)
(*                                                                         *)
(* Threads: the main thread (setup, then the event loop that calls the     *)
(* window-event handler and the run-event handler), the relay task on the  *)
(* async runtime, and the backend process itself.  The shared state is     *)
(* child_handle, an Arc<Mutex<Option<CommandChild>>>.                      *)
(***************************************************************************)
EXTENDS Integers, Sequences, FiniteSets

\* Option<T>: None, or Some(x)
None == <<>>
Some(x) == <<x>>
IsSome(o) == o # <<>>

\* ------------------------------------------------------------------ bounds
\* how many close-requests the window delivers in one run
MaxClose == 2
\* how many backend events may wait in the receiver at once
MaxRx == 1

\* how many bytes an update package has at most
MaxDownload == 3

\* process ids the process host may hand out
Pids == {7, 4242}

\* --------------------------------------------------------- program constants
\* Duration::from_secs(5) of the shutdown request's client
ShutdownTimeoutSecs == 5
\* thread::sleep(Duration::from_secs(5))
GraceSecs == 5
ShutdownUrl == "http://localhost:8080/api/shutdown"
ShutdownBody == "shutdown from tauri"

VARIABLES
    windows,        \* cfg(target_os = "windows")
    logsExists,     \* <app data dir>/logs exists
    logEntries,     \* the entries of the logs directory
    logs0,          \* the entries the logs directory held at launch
    cleanupResult,  \* what cleanup_old_logs returned: "none" yet, "Ok" or "Err"
    setuppc,        \* position of the setup closure
    app,            \* "starting", "running", "exited" or "aborted" (panicked)
    spawnResult,    \* "none" yet, "ok", "sidecar_err" or "spawn_err"
    pid,            \* `pid` of setup: command_child.pid(), 0 before the spawn
    child_handle,   \* the Option inside the mutex: None or Some(the child's pid)
    lock,           \* who holds the mutex guard: "free", "close" or "exit"
    backend,        \* the sidecar process: "none", "running" or "exited"
    rx,             \* the events waiting in the receiver
    txOpen,         \* the sending side of rx is still open
    rpc,            \* position of the relay task
    cpc,            \* position of the CloseRequested handler
    nclose,         \* close-requests delivered so far
    closeSeen,      \* what step 1 of the running close handler saw (as_ref)
    httpResult,     \* outcome of the running close handler's POST
    closeChild,     \* what step 3 of the running close handler took
    closesDone,     \* close handlers that have returned
    epc,            \* position of the RunEvent::Exit handler
    exitChild,      \* what the exit handler took
    effects,        \* the OS-visible effects so far, in order
    lastLog,        \* the last line the focus / exit-requested arms logged
    \* list_printers
    lpc,            \* position of list_printers
    psAvail,        \* Command::new("powershell") can be launched
    psStdout,       \* what the powershell query prints
    psSuccess,      \* the powershell query's exit status is success
    wmicAvail,      \* Command::new("wmic") can be launched
    wmicStdout,     \* what wmic printer get name prints
    wmicRan,        \* the fallback query was run
    printers,       \* `printers`
    lpResult,       \* what list_printers returned
    \* print_text
    ptc,            \* position of print_text
    ptContent,      \* `content`
    ptPrinter,      \* `printer_name`
    ptPath,         \* `path`
    ptCommand,      \* `command`
    ptWritten,      \* fs::write returned Ok
    ptStatus,       \* the print pipeline's outcome
    tmpFiles,       \* the files in the temporary directory
    ptResult,       \* what print_text returned
    \* install_update
    iuc,            \* position of install_update
    iuUpdater,      \* app_handle.updater() returned Ok
    iuCheck,        \* updater.check(): "none" yet, "update", "uptodate", "err"
    content_length, \* the Option the progress callback is given
    downloaded,     \* `downloaded`
    iuInstall,      \* what download_and_install returned: "ok" or "err"
    iuResult        \* what install_update returned

fsVars == <<windows, logsExists, logEntries, logs0, cleanupResult>>
setupVars == <<setuppc, app, spawnResult, pid>>
backendVars == <<backend, rx, txOpen>>
closeVars == <<cpc, nclose, closeSeen, httpResult, closeChild, closesDone>>
exitVars == <<epc, exitChild>>
lifeVars == <<fsVars, setupVars, backendVars, closeVars, exitVars,
              child_handle, lock, rpc, effects, lastLog>>
lpVars == <<lpc, psAvail, psStdout, psSuccess, wmicAvail, wmicStdout,
            wmicRan, printers, lpResult>>
ptVars == <<ptc, ptContent, ptPrinter, ptPath, ptCommand, ptWritten, ptStatus,
            tmpFiles, ptResult>>
iuVars == <<iuc, iuUpdater, iuCheck, content_length, downloaded, iuInstall,
            iuResult>>

\* Result<T, String>
Ok(v) == [ok |-> TRUE, val |-> v, err |-> ""]
Err(msg) == [ok |-> FALSE, val |-> <<>>, err |-> msg]
\* no result yet
Pending == [ok |-> FALSE, val |-> <<>>, err |-> "(pending)"]

\* ------------------------------------------------------------- u32 to_string
Digit(d) ==
    CASE d = 0 -> "0" [] d = 1 -> "1" [] d = 2 -> "2" [] d = 3 -> "3"
      [] d = 4 -> "4" [] d = 5 -> "5" [] d = 6 -> "6" [] d = 7 -> "7"
      [] d = 8 -> "8" [] OTHER -> "9"

RECURSIVE to_string(_)
to_string(n) ==
    IF n < 10 THEN Digit(n) ELSE to_string(n \div 10) \o Digit(n % 10)

\* ------------------------------------------------------------- log cleanup
\* file names are sequences of characters
LogExt == <<"l", "o", "g">>

LogCandidates ==
    { [name |-> <<"a", ".", "l", "o", "g">>, kind |-> "file"],
      [name |-> <<"b", ".", "t", "x", "t">>, kind |-> "file"],
      [name |-> <<"d", ".", "l", "o", "g">>, kind |-> "dir"],
      [name |-> <<"c", ".", "L", "O", "G">>, kind |-> "file"],
      [name |-> <<".", "l", "o", "g">>,      kind |-> "file"],
      [name |-> <<"l", "o", "g">>,           kind |-> "file"] }

RECURSIVE LastDot(_, _)
LastDot(name, i) ==
    IF i = 0 THEN 0
    ELSE IF name[i] = "." THEN i ELSE LastDot(name, i - 1)

\* Path::extension: nothing when the name has no dot or only a leading one
Extension(name) ==
    LET d == LastDot(name, Len(name))
    IN  IF d <= 1 THEN None ELSE Some(SubSeq(name, d + 1, Len(name)))

\* path.is_file()
IsFile(e) == e.kind = "file"

\* a faulty variant: the is_file() test left out
ShouldDeleteNoFileTest(e) == Extension(e.name) = Some(LogExt)

\* lines 440-442: a file, with an extension, and the extension is "log"
ShouldDelete(e) ==
    /\ IsFile(e)
    /\ IsSome(Extension(e.name))
    /\ Extension(e.name) = Some(LogExt)

\* lines 234-236: an Err of cleanup_old_logs is printed, setup goes on
AfterCleanup(result) == "spawn"

\* lines 431-457 called from lines 234-236
SetupCleanup ==
    /\ app = "starting" /\ setuppc = "cleanup"
    /\ \E dirOk \in BOOLEAN, readOk \in BOOLEAN :
         \E failing \in SUBSET {e \in logEntries : ShouldDelete(e)} :
           LET removed == IF dirOk /\ logsExists /\ readOk
                          THEN {e \in logEntries : ShouldDelete(e)} \ failing
                          ELSE {}
               result  == IF dirOk THEN "Ok" ELSE "Err"
           IN  /\ (~(dirOk /\ logsExists /\ readOk) => failing = {})
               /\ (~dirOk => readOk)
               /\ logEntries' = logEntries \ removed
               /\ cleanupResult' = result
               /\ setuppc' = AfterCleanup(result)
               /\ app' = IF AfterCleanup(result) = "failed"
                         THEN "aborted" ELSE app
    /\ UNCHANGED <<lpVars, ptVars, iuVars>>
    /\ UNCHANGED <<windows, logsExists, logs0, spawnResult, pid, backendVars,
                   closeVars, exitVars, child_handle, lock, rpc, effects,
                   lastLog>>

\* ------------------------------------------------------------------- setup
\* lines 263-270: sidecar(..)?, spawn()?, pid, and the store into the mutex
SetupSpawn ==
    /\ app = "starting" /\ setuppc = "spawn" /\ lock = "free"
    /\ \E outcome \in {"ok", "sidecar_err", "spawn_err"} :
         /\ spawnResult' = outcome
         /\ IF outcome = "ok"
            THEN \E p \in Pids :
                   /\ pid' = p
                   /\ child_handle' = Some(p)
                   /\ backend' = "running"
                   /\ txOpen' = TRUE
                   /\ setuppc' = "relay"
                   /\ app' = app
            ELSE \* the ? returns the error from the setup closure: the
                 \* application does not come up (lines 263-264, 386-387)
                 /\ setuppc' = "failed"
                 /\ app' = "aborted"
                 /\ UNCHANGED <<pid, child_handle, backend, txOpen>>
    /\ UNCHANGED <<lpVars, ptVars, iuVars>>
    /\ UNCHANGED <<fsVars, rx, closeVars, exitVars, lock, rpc, effects,
                   lastLog>>

\* lines 272-296: the relay task is spawned on the async runtime
SetupRelay ==
    /\ app = "starting" /\ setuppc = "relay"
    /\ rpc' = "recv"
    /\ setuppc' = "window"
    /\ UNCHANGED <<lpVars, ptVars, iuVars>>
    /\ UNCHANGED <<fsVars, app, spawnResult, pid, backendVars, closeVars,
                   exitVars, child_handle, lock, effects, lastLog>>

\* lines 299-383, 386-390: the main window is looked up (unwrap), the window
\* handler is registered, setup returns Ok and the event loop runs with the
\* run-event handler
SetupWindow ==
    /\ app = "starting" /\ setuppc = "window"
    /\ \E found \in BOOLEAN :
         IF found
         THEN setuppc' = "done" /\ app' = "running"
         ELSE setuppc' = "failed" /\ app' = "aborted"
    /\ UNCHANGED <<lpVars, ptVars, iuVars>>
    /\ UNCHANGED <<fsVars, spawnResult, pid, backendVars, closeVars, exitVars,
                   child_handle, lock, rpc, effects, lastLog>>

\* the application's process is alive
Alive == app \in {"starting", "running"}

\* ----------------------------------------------------------------- backend
\* the sidecar writes a line or reports an error: CommandEvent::Stdout,
\* Stderr, Error (lines 276-286)
BackendEmit ==
    /\ Alive /\ backend = "running" /\ Len(rx) < MaxRx
    /\ \E ev \in {"Stdout", "Stderr", "Error"} : rx' = Append(rx, ev)
    /\ UNCHANGED <<lpVars, ptVars, iuVars>>
    /\ UNCHANGED <<fsVars, setupVars, backend, txOpen, closeVars, exitVars,
                   child_handle, lock, rpc, effects, lastLog>>

\* what the receiver gets when the sidecar's process ends: the Terminated
\* event (line 287), then the end of the stream (line 274)
Terminated(q) == Append(q, "Terminated")

\* the sidecar exits by itself (a crash, or its answer to the shutdown POST)
BackendExit ==
    /\ Alive /\ backend = "running"
    /\ backend' = "exited"
    /\ rx' = Terminated(rx)
    /\ txOpen' = FALSE
    /\ UNCHANGED <<lpVars, ptVars, iuVars>>
    /\ UNCHANGED <<fsVars, setupVars, closeVars, exitVars, child_handle,
                   lock, rpc, effects, lastLog>>

\* ------------------------------------------------------------------- relay
\* lines 274-292: one event is received and logged
RelayRecv ==
    /\ Alive /\ rpc = "recv" /\ rx # <<>>
    /\ rx' = Tail(rx)
    /\ UNCHANGED <<lpVars, ptVars, iuVars>>
    /\ UNCHANGED <<fsVars, setupVars, backend, txOpen, closeVars, exitVars,
                   child_handle, lock, rpc, effects, lastLog>>

\* line 274: rx.recv() returns None, the loop ends
RelayStreamEnd ==
    /\ Alive /\ rpc = "recv" /\ rx = <<>> /\ ~txOpen
    /\ rpc' = "clear"
    /\ UNCHANGED <<lpVars, ptVars, iuVars>>
    /\ UNCHANGED <<fsVars, setupVars, backendVars, closeVars, exitVars,
                   child_handle, lock, effects, lastLog>>

\* a faulty variant: the relay task looks at the handle and leaves it
RelayHandleAfterPeek == child_handle

\* line 294: what take() leaves in the mutex
RelayHandleAfterTake == None

\* line 294: lock, take, unlock in one statement
RelayClear ==
    /\ Alive /\ rpc = "clear" /\ lock = "free"
    /\ child_handle' = RelayHandleAfterTake
    /\ rpc' = "done"
    /\ UNCHANGED <<lpVars, ptVars, iuVars>>
    /\ UNCHANGED <<fsVars, setupVars, backendVars, closeVars, exitVars,
                   lock, effects, lastLog>>

\* ------------------------------------------------------- force termination
\* lines 351-363 and 402-414: the command that is run against `pid`
KillCommand(p) ==
    IF windows
    THEN [prog |-> "taskkill", args |-> <<"/PID", to_string(p), "/T", "/F">>]
    ELSE [prog |-> "kill", args |-> <<"-9", to_string(p)>>]

\* one entry of `effects`
Effect(kind, by, run, prog, args, outcome) ==
    [kind |-> kind, by |-> by, run |-> run, prog |-> prog, args |-> args,
     outcome |-> outcome]

KillEffect(by, run, p, ok) ==
    Effect("kill", by, run, KillCommand(p).prog, KillCommand(p).args,
           IF ok THEN "ok" ELSE "failed")

\* the commands a handler has to run and their results (discarded by the
\* code: let _ = ..status()), and what a successful one does to the sidecar
RunKill(by, run, cmds) ==
    \E ok \in BOOLEAN :
      /\ (ok => (cmds # <<>> /\ backend = "running"))
      /\ effects' = IF cmds = <<>> THEN effects
                    ELSE Append(effects, KillEffect(by, run, cmds[1], ok))
      /\ IF ok
         THEN backend' = "exited" /\ rx' = Terminated(rx) /\ txOpen' = FALSE
         ELSE UNCHANGED backendVars

\* ------------------------------------------- WindowEvent::CloseRequested
\* the main thread is in neither handler
MainIdle == cpc = "idle" /\ epc = "idle"

\* line 312: the handler is entered; overlap says whether the event may be
\* delivered while the exit handler runs
CloseStart(overlap) ==
    /\ app = "running" /\ cpc = "idle" /\ nclose < MaxClose
    /\ (overlap \/ epc = "idle")
    /\ nclose' = nclose + 1
    /\ cpc' = "step1"
    /\ closeSeen' = None /\ httpResult' = "notsent" /\ closeChild' = None
    /\ UNCHANGED <<lpVars, ptVars, iuVars>>
    /\ UNCHANGED <<fsVars, setupVars, backendVars, closesDone, exitVars,
                   child_handle, lock, rpc, effects, lastLog>>

CloseRequested == CloseStart(FALSE)

\* a faulty variant: the POST is sent whatever step 1 saw
CloseAfterPeekAlwaysPost(seen) == "http"

\* lines 318, 340-343: the body with the POST is entered only with Some
CloseAfterPeek(seen) == IF IsSome(seen) THEN "http" ELSE "sleep"

\* line 318: lock().unwrap().as_ref(); the guard lives as long as the
\* if-let it is the scrutinee of, so with Some it is held through the body
\* (lines 319-339), and with None it is dropped at once
CloseStep1 ==
    /\ app = "running" /\ cpc = "step1" /\ lock = "free"
    /\ closeSeen' = child_handle
    /\ cpc' = CloseAfterPeek(child_handle)
    /\ lock' = IF IsSome(child_handle) THEN "close" ELSE lock
    /\ UNCHANGED <<lpVars, ptVars, iuVars>>
    /\ UNCHANGED <<fsVars, setupVars, backendVars, nclose, httpResult,
                   closeChild, closesDone, exitVars, child_handle, rpc,
                   effects, lastLog>>

\* lines 322-339: the client is built (with the fallback client when the
\* builder fails), the POST is sent and returns; the if-let ends and drops
\* the guard (line 340).  Only a running backend answers the request.
CloseHttp ==
    /\ app = "running" /\ cpc = "http"
    /\ \E built \in BOOLEAN, outcome \in {"success", "error", "timeout"} :
         /\ (outcome = "success" => backend = "running")
         /\ effects' = Append(effects,
                Effect("post", "close", nclose, "POST",
                       <<ShutdownUrl, ShutdownBody,
                         IF built THEN to_string(ShutdownTimeoutSecs)
                         ELSE "default">>,
                       outcome))
         /\ httpResult' = outcome
    /\ lock' = "free"
    /\ cpc' = "sleep"
    /\ UNCHANGED <<lpVars, ptVars, iuVars>>
    /\ UNCHANGED <<fsVars, setupVars, backendVars, nclose, closeSeen,
                   closeChild, closesDone, exitVars, child_handle, rpc,
                   lastLog>>

\* a faulty variant: no wait once the backend is gone
CloseSleepUnlessExited ==
    /\ app = "running" /\ cpc = "sleep"
    /\ effects' = IF backend = "exited" THEN effects
                  ELSE Append(effects,
                         Effect("sleep", "close", nclose, "sleep",
                                <<to_string(GraceSecs)>>, "done"))
    /\ cpc' = "step3"
    /\ UNCHANGED <<lpVars, ptVars, iuVars>>
    /\ UNCHANGED <<fsVars, setupVars, backendVars, nclose, closeSeen,
                   httpResult, closeChild, closesDone, exitVars, child_handle,
                   lock, rpc, lastLog>>

\* lines 343-344: thread::sleep(Duration::from_secs(5)) returns
CloseSleep ==
    /\ app = "running" /\ cpc = "sleep"
    /\ effects' = Append(effects,
           Effect("sleep", "close", nclose, "sleep",
                  <<to_string(GraceSecs)>>, "done"))
    /\ cpc' = "step3"
    /\ UNCHANGED <<lpVars, ptVars, iuVars>>
    /\ UNCHANGED <<fsVars, setupVars, backendVars, nclose, closeSeen,
                   httpResult, closeChild, closesDone, exitVars, child_handle,
                   lock, rpc, lastLog>>

\* a faulty variant: as_ref() in place of take()
CloseHandleAfterPeek == child_handle

\* a faulty variant: the handle is given up only when the POST failed
CloseHandleAfterTakeUnlessHttpOk ==
    IF httpResult = "success" THEN child_handle ELSE None

\* a faulty variant: step 3 stores a handle for the final cleanup to find
CloseHandleAfterPutBack == Some(pid)

\* line 347: what take() leaves in the mutex
CloseHandleAfterTake == None

\* line 347: lock().unwrap().take(); the guard is held to the end of the
\* if-let (line 366)
CloseStep3 ==
    /\ app = "running" /\ cpc = "step3" /\ lock = "free"
    /\ closeChild' = child_handle
    /\ child_handle' = CloseHandleAfterTake
    /\ lock' = "close"
    /\ cpc' = "kill"
    /\ UNCHANGED <<lpVars, ptVars, iuVars>>
    /\ UNCHANGED <<fsVars, setupVars, backendVars, nclose, closeSeen,
                   httpResult, closesDone, exitVars, rpc, effects, lastLog>>

\* a faulty variant: no force-kill after a successful POST
CloseForceKillUnlessHttpOk(child) ==
    IF IsSome(child) /\ httpResult # "success" THEN <<child[1]>> ELSE <<>>

\* lines 347-366: the pids step 3 runs the kill command against
CloseForceKill(child) == IF IsSome(child) THEN <<child[1]>> ELSE <<>>

\* lines 348-365: the body of step 3
CloseKill ==
    /\ app = "running" /\ cpc = "kill"
    /\ RunKill("close", nclose, CloseForceKill(closeChild))
    /\ cpc' = "unlock"
    /\ UNCHANGED <<lpVars, ptVars, iuVars>>
    /\ UNCHANGED <<fsVars, setupVars, nclose, closeSeen, httpResult,
                   closeChild, closesDone, exitVars, child_handle, lock, rpc,
                   lastLog>>

\* a faulty variant: the guard of step 3 is never dropped
CloseReturnKeepingGuard ==
    /\ app = "running" /\ cpc = "unlock"
    /\ lock' = lock
    /\ cpc' = "idle"
    /\ closesDone' = closesDone + 1
    /\ UNCHANGED <<lpVars, ptVars, iuVars>>
    /\ UNCHANGED <<fsVars, setupVars, backendVars, nclose, closeSeen,
                   httpResult, closeChild, exitVars, child_handle, rpc,
                   effects, lastLog>>

\* lines 366-367: the guard is dropped, the handler returns
CloseReturn ==
    /\ app = "running" /\ cpc = "unlock"
    /\ lock' = "free"
    /\ cpc' = "idle"
    /\ closesDone' = closesDone + 1
    /\ UNCHANGED <<lpVars, ptVars, iuVars>>
    /\ UNCHANGED <<fsVars, setupVars, backendVars, nclose, closeSeen,
                   httpResult, closeChild, exitVars, child_handle, rpc,
                   effects, lastLog>>

\* lines 368-374: WindowEvent::Focused is logged
Focused ==
    /\ app = "running" /\ MainIdle
    /\ \E focused \in BOOLEAN :
         lastLog' = IF focused THEN "Window focused" ELSE "Window unfocused"
    /\ UNCHANGED <<lpVars, ptVars, iuVars>>
    /\ UNCHANGED <<fsVars, setupVars, backendVars, closeVars, exitVars,
                   child_handle, lock, rpc, effects>>

\* ------------------------------------------------------------- run events
\* a faulty variant: the exit-requested arm gives the handle up as well
ExitRequestedTakingHandle ==
    /\ app = "running" /\ MainIdle /\ lock = "free"
    /\ lastLog' = "Exit requested"
    /\ child_handle' = None
    /\ UNCHANGED <<lpVars, ptVars, iuVars>>
    /\ UNCHANGED <<fsVars, setupVars, backendVars, closeVars, exitVars,
                   lock, rpc, effects>>

\* lines 421-423: RunEvent::ExitRequested is logged
ExitRequested ==
    /\ app = "running" /\ MainIdle
    /\ lastLog' = "Exit requested"
    /\ UNCHANGED <<lpVars, ptVars, iuVars>>
    /\ UNCHANGED <<fsVars, setupVars, backendVars, closeVars, exitVars,
                   child_handle, lock, rpc, effects>>

\* line 392: RunEvent::Exit is delivered; overlap says whether it may be
\* delivered while the close handler runs
ExitStart(overlap) ==
    /\ app = "running" /\ epc = "idle"
    /\ (overlap \/ cpc = "idle")
    /\ epc' = "take"
    /\ UNCHANGED <<lpVars, ptVars, iuVars>>
    /\ UNCHANGED <<fsVars, setupVars, backendVars, closeVars, exitChild,
                   child_handle, lock, rpc, effects, lastLog>>

Exit == ExitStart(FALSE)

\* a faulty variant: the exit handler looks at the handle and leaves it
ExitHandleAfterPeek == child_handle

\* line 398: what take() leaves in the mutex
ExitHandleAfterTake == None

\* line 398: lock().unwrap().take(); the guard is held to the end of the
\* if-let (line 417)
ExitTake ==
    /\ app = "running" /\ epc = "take" /\ lock = "free"
    /\ exitChild' = child_handle
    /\ child_handle' = ExitHandleAfterTake
    /\ lock' = "exit"
    /\ epc' = "kill"
    /\ UNCHANGED <<lpVars, ptVars, iuVars>>
    /\ UNCHANGED <<fsVars, setupVars, backendVars, closeVars, rpc, effects,
                   lastLog>>

\* a faulty variant: the kill goes to the pid setup remembered, whatever
\* take() returned
ExitForceKillRememberedPid(child) == <<pid>>

\* a faulty variant: the final cleanup takes the handle and kills nothing
ExitForceKillNothing(child) == <<>>

\* lines 398-417: the pids final cleanup runs the kill command against
ExitForceKill(child) == IF IsSome(child) THEN <<child[1]>> ELSE <<>>

\* lines 399-416: the body of the final cleanup
ExitKill ==
    /\ app = "running" /\ epc = "kill"
    /\ RunKill("exit", 0, ExitForceKill(exitChild))
    /\ epc' = "unlock"
    /\ UNCHANGED <<lpVars, ptVars, iuVars>>
    /\ UNCHANGED <<fsVars, setupVars, closeVars, exitChild, child_handle,
                   lock, rpc, lastLog>>

\* line 417: the if-let ends, the guard is dropped
ExitUnlock ==
    /\ app = "running" /\ epc = "unlock"
    /\ lock' = "free"
    /\ epc' = "return"
    /\ UNCHANGED <<lpVars, ptVars, iuVars>>
    /\ UNCHANGED <<fsVars, setupVars, backendVars, closeVars, exitChild,
                   child_handle, rpc, effects, lastLog>>

\* lines 419-420, 427-428: the handler returns, run() returns and the
\* process ends, and every task of it with it
ExitReturn ==
    /\ app = "running" /\ epc = "return"
    /\ epc' = "done"
    /\ app' = "exited"
    /\ UNCHANGED <<lpVars, ptVars, iuVars>>
    /\ UNCHANGED <<fsVars, setuppc, spawnResult, pid, backendVars, closeVars,
                   exitChild, child_handle, lock, rpc, effects, lastLog>>

\* ----------------------------------------------------------- list_printers
\* text is a sequence of characters
CR == "CR"
LF == "LF"
SP == " "
Whitespace == {SP, CR, "TAB"}

\* char::to_lowercase, for the letters that occur
Lower(c) ==
    CASE c = "N" -> "n" [] c = "A" -> "a" [] c = "M" -> "m" [] c = "E" -> "e"
      [] c = "H" -> "h" [] c = "P" -> "p" [] c = "D" -> "d" [] c = "F" -> "f"
      [] OTHER -> c

to_lowercase(t) == [i \in 1..Len(t) |-> Lower(t[i])]

\* the segments of t between line feeds
RECURSIVE SplitLF(_)
SplitLF(t) ==
    IF \A i \in 1..Len(t) : t[i] # LF THEN <<t>>
    ELSE LET k == CHOOSE i \in 1..Len(t) :
                    t[i] = LF /\ \A j \in 1..(i - 1) : t[j] # LF
         IN  <<SubSeq(t, 1, k - 1)>> \o SplitLF(SubSeq(t, k + 1, Len(t)))

StripCR(l) ==
    IF l # <<>> /\ l[Len(l)] = CR THEN SubSeq(l, 1, Len(l) - 1) ELSE l

\* str::lines: split at \n, a \r right before the \n belongs to the line
\* ending, and nothing after the last line ending is no line
lines(t) ==
    LET segs == SplitLF(t)
        n    == Len(segs)
        kept == IF segs[n] = <<>> THEN SubSeq(segs, 1, n - 1) ELSE segs
    IN  [i \in 1..Len(kept) |-> IF i < n THEN StripCR(kept[i]) ELSE kept[i]]

RECURSIVE trim_start(_)
trim_start(l) ==
    IF l # <<>> /\ l[1] \in Whitespace THEN trim_start(Tail(l)) ELSE l

RECURSIVE trim_end(_)
trim_end(l) ==
    IF l # <<>> /\ l[Len(l)] \in Whitespace
    THEN trim_end(SubSeq(l, 1, Len(l) - 1)) ELSE l

\* str::trim
trim(l) == trim_end(trim_start(l))

Trimmed(t) == [i \in 1..Len(lines(t)) |-> trim(lines(t)[i])]

\* lines 122-128: the non-empty trimmed lines
ParsePrimary(stdout) == SelectSeq(Trimmed(stdout), LAMBDA l : l # <<>>)

\* lines 137-143: the non-empty trimmed lines that are not "name"
ParseFallback(stdout) ==
    SelectSeq(Trimmed(stdout),
              LAMBDA l : l # <<>> /\ to_lowercase(l) # <<"n", "a", "m", "e">>)

\* what the two queries may print
PsOutputs ==
    { <<>>,
      <<"H", "P", CR, LF>>,
      <<SP, "H", "P", SP, CR, LF, CR, LF, "P", "D", "F", CR, LF>>,
      <<"N", "a", "m", "e", LF>> }

WmicOutputs ==
    { <<>>,
      <<"N", "a", "m", "e", SP, SP, CR, CR, LF,
        "H", "P", SP, SP, CR, CR, LF, CR, CR, LF>>,
      <<"N", "a", "m", "e", SP, CR, CR, LF>>,
      <<"N", "A", "M", "E", LF, "P", "D", "F">> }

\* line 110: the front end invokes list_printers, on some machine
ListPrinters ==
    /\ app = "running" /\ lpc = "idle"
    /\ psAvail' \in BOOLEAN
    /\ psStdout' \in PsOutputs
    /\ psSuccess' \in BOOLEAN
    /\ wmicAvail' \in BOOLEAN
    /\ wmicStdout' \in WmicOutputs
    /\ lpc' = IF windows THEN "powershell" ELSE "unsupported"
    /\ UNCHANGED <<lifeVars, wmicRan, printers, lpResult, ptVars, iuVars>>

\* lines 153-156
LpUnsupported ==
    /\ lpc = "unsupported"
    /\ lpResult' = Err("Printer listing is only supported on Windows.")
    /\ lpc' = "done"
    /\ UNCHANGED <<lifeVars, psAvail, psStdout, psSuccess, wmicAvail,
                   wmicStdout, wmicRan, printers, ptVars, iuVars>>

\* lines 113-130: the primary query; a launch error is returned by the ?
LpPowershell ==
    /\ lpc = "powershell"
    /\ IF ~psAvail
       THEN /\ lpResult' = Err("Failed to list printers: program not found")
            /\ lpc' = "done"
            /\ UNCHANGED printers
       ELSE /\ printers' = ParsePrimary(psStdout)
            /\ lpc' = IF ParsePrimary(psStdout) = <<>> THEN "wmic"
                      ELSE "check"
            /\ UNCHANGED lpResult
    /\ UNCHANGED <<lifeVars, psAvail, psStdout, psSuccess, wmicAvail,
                   wmicStdout, wmicRan, ptVars, iuVars>>

\* lines 130-144: the fallback query, run when the first one named nothing
LpWmic ==
    /\ lpc = "wmic"
    /\ wmicRan' = TRUE
    /\ IF ~wmicAvail
       THEN /\ lpResult' =
                 Err("Failed to list printers (wmic): program not found")
            /\ lpc' = "done"
            /\ UNCHANGED printers
       ELSE /\ printers' = ParseFallback(wmicStdout)
            /\ lpc' = "check"
            /\ UNCHANGED lpResult
    /\ UNCHANGED <<lifeVars, psAvail, psStdout, psSuccess, wmicAvail,
                   wmicStdout, ptVars, iuVars>>

\* lines 146-150
LpReturn ==
    /\ lpc = "check"
    /\ lpResult' = IF printers = <<>> /\ ~psSuccess
                   THEN Err("Failed to list printers")
                   ELSE Ok(printers)
    /\ lpc' = "done"
    /\ UNCHANGED <<lifeVars, psAvail, psStdout, psSuccess, wmicAvail,
                   wmicStdout, wmicRan, printers, ptVars, iuVars>>

LpInit ==
    /\ lpc = "idle"
    /\ psAvail = FALSE /\ psStdout = <<>> /\ psSuccess = FALSE
    /\ wmicAvail = FALSE /\ wmicStdout = <<>> /\ wmicRan = FALSE
    /\ printers = <<>>
    /\ lpResult = Pending

\* -------------------------------------------------------------- print_text
\* the temporary directory, the receipt texts and the printer names tried
TempDirs == { <<"C", ":", "\\", "T", "\\">>, <<"C", ":", "\\", "O", "'", "B", "\\">> }
Contents == {"", "Total: 42"}
PrinterNames == { None, Some(<<"H", "P">>), Some(<<"J", "o", "'", "s">>) }
\* milliseconds since the epoch
Timestamps == {0, 17}

\* str::replace('\'', "''")
RECURSIVE EscapeQuotes(_)
EscapeQuotes(t) ==
    IF t = <<>> THEN <<>>
    ELSE (IF t[1] = "'" THEN <<"'", "'">> ELSE <<t[1]>>)
         \o EscapeQuotes(Tail(t))

\* lines 163-168: temp_dir joined with siri-receipt-<timestamp>.txt
ReceiptPath(dir, timestamp) ==
    dir \o <<"siri-receipt-", to_string(timestamp), ".txt">>

\* lines 172-180: the PowerShell command, as the pieces it is joined from
PrintCommand(path, name) ==
    <<"Get-Content -Raw -LiteralPath '">> \o EscapeQuotes(path)
      \o <<"' | Out-Printer">>
      \o (IF IsSome(name)
          THEN <<" -Name '">> \o EscapeQuotes(name[1]) \o <<"'">>
          ELSE <<>>)

\* line 160: the front end invokes print_text
PrintText ==
    /\ app = "running" /\ ptc = "idle"
    /\ ptContent' \in Contents
    /\ ptPrinter' \in PrinterNames
    /\ ptc' = IF windows THEN "write" ELSE "unsupported"
    /\ UNCHANGED iuVars
    /\ UNCHANGED <<lifeVars, lpVars, ptPath, ptCommand, ptWritten, ptStatus,
                   tmpFiles, ptResult>>

\* lines 196-199
PtUnsupported ==
    /\ ptc = "unsupported"
    /\ ptResult' = Err("Silent printing is only supported on Windows.")
    /\ ptc' = "done"
    /\ UNCHANGED iuVars
    /\ UNCHANGED <<lifeVars, lpVars, ptContent, ptPrinter, ptPath, ptCommand,
                   ptWritten, ptStatus, tmpFiles>>

\* lines 163-180: the path is made, the content is written (an error is
\* returned by the ?), the command is put together
PtWrite ==
    /\ ptc = "write"
    /\ \E dir \in TempDirs, timestamp \in Timestamps, ok \in BOOLEAN :
         LET path == ReceiptPath(dir, timestamp)
         IN  /\ ptPath' = path
             /\ ptWritten' = ok
             /\ IF ok
                THEN /\ tmpFiles' = tmpFiles \cup {path}
                     /\ ptCommand' = PrintCommand(path, ptPrinter)
                     /\ ptc' = "print"
                     /\ UNCHANGED ptResult
                ELSE /\ ptResult' =
                          Err("Failed to write print file: access denied")
                     /\ ptc' = "done"
                     /\ UNCHANGED <<tmpFiles, ptCommand>>
    /\ UNCHANGED iuVars
    /\ UNCHANGED <<lifeVars, lpVars, ptContent, ptPrinter, ptStatus>>

\* lines 182-185: the pipeline is run; when powershell cannot be launched
\* the ? returns the error
PtPrint ==
    /\ ptc = "print"
    /\ \E outcome \in {"launch_failed", "success", "failure"} :
         /\ ptStatus' = outcome
         /\ IF outcome = "launch_failed"
            THEN /\ ptc' = "done"
                 /\ ptResult' = Err("Failed to print: program not found")
            ELSE /\ ptc' = "remove"
                 /\ UNCHANGED ptResult
    /\ UNCHANGED iuVars
    /\ UNCHANGED <<lifeVars, lpVars, ptContent, ptPrinter, ptPath, ptCommand,
                   ptWritten, tmpFiles>>

\* line 187: let _ = fs::remove_file(&path)
PtRemove ==
    /\ ptc = "remove"
    /\ \E removed \in BOOLEAN :
         tmpFiles' = IF removed THEN tmpFiles \ {ptPath} ELSE tmpFiles
    /\ ptc' = "status"
    /\ UNCHANGED iuVars
    /\ UNCHANGED <<lifeVars, lpVars, ptContent, ptPrinter, ptPath, ptCommand,
                   ptWritten, ptStatus, ptResult>>

\* lines 189-193
PtReturn ==
    /\ ptc = "status"
    /\ ptResult' = IF ptStatus # "success" THEN Err("Silent print failed")
                   ELSE Ok(<<>>)
    /\ ptc' = "done"
    /\ UNCHANGED iuVars
    /\ UNCHANGED <<lifeVars, lpVars, ptContent, ptPrinter, ptPath, ptCommand,
                   ptWritten, ptStatus, tmpFiles>>

PtInit ==
    /\ ptc = "idle"
    /\ ptContent = "" /\ ptPrinter = None
    /\ ptPath = <<>> /\ ptCommand = <<>>
    /\ ptWritten = FALSE /\ ptStatus = "none"
    /\ tmpFiles = {}
    /\ ptResult = Pending

\* ---------------------------------------------------------- install_update
\* Result<String, String>
StatusOk(text) == [ok |-> TRUE, val |-> text, err |-> ""]
StatusErr(msg) == [ok |-> FALSE, val |-> "", err |-> msg]
StatusPending == [ok |-> FALSE, val |-> "", err |-> "(pending)"]

\* the chunk lengths the progress callback is called with
ChunkLens == {1, 2}
\* the content lengths the server may announce
ContentLengths == {None, Some(2), Some(3)}

\* line 61: the front end invokes install_update
InstallUpdate ==
    /\ app = "running" /\ iuc = "idle"
    /\ iuc' = "updater"
    /\ UNCHANGED <<lifeVars, lpVars, ptVars, iuUpdater, iuCheck,
                   content_length, downloaded, iuInstall, iuResult>>

\* lines 63-64, 98-101: app_handle.updater()
IuUpdater ==
    /\ iuc = "updater"
    /\ \E ok \in BOOLEAN :
         /\ iuUpdater' = ok
         /\ IF ok
            THEN iuc' = "check" /\ UNCHANGED iuResult
            ELSE /\ iuc' = "done"
                 /\ iuResult' = StatusErr("Failed to get updater: <e>")
    /\ UNCHANGED <<lifeVars, lpVars, ptVars, iuCheck, content_length,
                   downloaded, iuInstall>>

\* a faulty variant: the download is started whatever the check reported
IuAfterCheckAlwaysDownload(check) ==
    IF check = "err" THEN "done" ELSE "download"

\* lines 65-66, 88, 92: only Ok(Some(update)) leads to download_and_install
IuAfterCheck(check) == IF check = "update" THEN "download" ELSE "done"

\* lines 65-68, 88-95: updater.check().await and the arms without an update
IuCheck ==
    /\ iuc = "check"
    /\ \E check \in {"update", "uptodate", "err"} :
         /\ iuCheck' = check
         /\ iuc' = IuAfterCheck(check)
         /\ iuResult' =
              IF IuAfterCheck(check) = "download" THEN iuResult
              ELSE IF check = "uptodate"
                   THEN StatusOk("No update available to install.")
                   ELSE StatusErr("Failed to check for updates: <e>")
         /\ IF IuAfterCheck(check) = "download"
            THEN content_length' \in ContentLengths
            ELSE UNCHANGED content_length
    /\ downloaded' = 0
    /\ UNCHANGED <<lifeVars, lpVars, ptVars, iuUpdater, iuInstall>>

\* lines 70-73: the progress callback, downloaded += chunk_length
IuChunk ==
    /\ iuc = "download"
    /\ \E chunk_length \in ChunkLens :
         /\ downloaded + chunk_length <= MaxDownload
         /\ downloaded' = downloaded + chunk_length
    /\ UNCHANGED <<lifeVars, lpVars, ptVars, iuc, iuUpdater, iuCheck,
                   content_length, iuInstall, iuResult>>

\* lines 77-86: download_and_install(..).await returns
IuFinish ==
    /\ iuc = "download"
    /\ \E ok \in BOOLEAN :
         /\ iuInstall' = IF ok THEN "ok" ELSE "err"
         /\ iuResult' =
              IF ok THEN StatusOk("Update installed. Please restart the app.")
              ELSE StatusErr("Failed to download/install update: <e>")
    /\ iuc' = "done"
    /\ UNCHANGED <<lifeVars, lpVars, ptVars, iuUpdater, iuCheck,
                   content_length, downloaded>>

IuInit ==
    /\ iuc = "idle"
    /\ iuUpdater = FALSE /\ iuCheck = "none"
    /\ content_length = None /\ downloaded = 0
    /\ iuInstall = "none"
    /\ iuResult = StatusPending

\* ------------------------------------------------------------ specification
\* line 203 and the state of the machine at launch, but for the logs
\* directory
LaunchInit ==
    /\ windows \in BOOLEAN
    /\ logs0 = logEntries
    /\ cleanupResult = "none"
    /\ setuppc = "cleanup" /\ app = "starting"
    /\ spawnResult = "none" /\ pid = 0
    /\ child_handle = None
    /\ lock = "free"
    /\ backend = "none" /\ rx = <<>> /\ txOpen = FALSE
    /\ rpc = "none"
    /\ cpc = "idle" /\ nclose = 0 /\ closeSeen = None
    /\ httpResult = "notsent" /\ closeChild = None /\ closesDone = 0
    /\ epc = "idle" /\ exitChild = None
    /\ effects = <<>>
    /\ lastLog = ""
    /\ LpInit /\ PtInit /\ IuInit

\* a first launch (no logs directory yet) or a later one (a logs directory
\* holding every kind of entry)
LifeInit ==
    /\ \/ logsExists = FALSE /\ logEntries = {}
       \/ logsExists = TRUE /\ logEntries = LogCandidates
    /\ LaunchInit

\* any logs directory
LogsInit ==
    /\ logsExists \in BOOLEAN
    /\ logEntries \in SUBSET LogCandidates
    /\ (~logsExists => logEntries = {})
    /\ LaunchInit

vars == <<lifeVars, lpVars, ptVars, iuVars>>

Init == LifeInit

\* startup
Startup == SetupCleanup \/ SetupSpawn \/ SetupRelay \/ SetupWindow

\* the backend and the relay task
Sidecar ==
    \/ BackendEmit \/ BackendExit
    \/ RelayRecv \/ RelayStreamEnd \/ RelayClear

\* the steps of the two handlers once entered, and the arms that only log
Handlers ==
    \/ CloseStep1 \/ CloseHttp \/ CloseSleep
    \/ CloseStep3 \/ CloseKill \/ CloseReturn
    \/ Focused \/ ExitRequested
    \/ ExitTake \/ ExitKill \/ ExitUnlock \/ ExitReturn

\* the sidecar's lifecycle; the main thread runs one handler at a time
Next == Startup \/ Sidecar \/ CloseRequested \/ Exit \/ Handlers

Spec == Init /\ [][Next]_vars

\* the steps of the main thread inside the close and the exit handler; the
\* POST returns (with a response, an error or the timeout)
MainThread ==
    \/ CloseStep1 \/ CloseHttp \/ CloseSleep
    \/ CloseStep3 \/ CloseKill \/ CloseReturn
    \/ ExitTake \/ ExitKill \/ ExitUnlock \/ ExitReturn

\* the steps of the relay task
RelayTask == RelayRecv \/ RelayStreamEnd \/ RelayClear

\* the operating system and the async runtime let a thread or task that
\* can go on do so; nothing is assumed of the backend or of the events the
\* window delivers
Fairness == WF_vars(MainThread) /\ WF_vars(RelayTask)

\* the lifecycle without the arms that only log
NextFair == Startup \/ Sidecar \/ CloseRequested \/ Exit \/ MainThread

SpecFair == Init /\ [][NextFair]_vars /\ Fairness

\* the close and the exit handler may also overlap step by step
CloseRequestedOverlapping == CloseStart(TRUE)
ExitOverlapping == ExitStart(TRUE)

NextOverlap ==
    \/ Startup \/ Sidecar \/ Handlers
    \/ CloseRequestedOverlapping \/ ExitOverlapping

SpecOverlap == Init /\ [][NextOverlap]_vars

\* startup alone, from any logs directory
NextStartup == Startup

SpecStartup == LogsInit /\ [][NextStartup]_vars

\* the front end lists the printers of some machine
NextPrinters ==
    \/ Startup
    \/ ListPrinters \/ LpUnsupported \/ LpPowershell \/ LpWmic \/ LpReturn

SpecPrinters == Init /\ [][NextPrinters]_vars

\* the front end prints a receipt
NextPrint ==
    \/ Startup
    \/ PrintText \/ PtUnsupported \/ PtWrite \/ PtPrint \/ PtRemove
    \/ PtReturn

SpecPrint == Init /\ [][NextPrint]_vars

\* the front end installs an update
NextUpdate ==
    \/ Startup
    \/ InstallUpdate \/ IuUpdater \/ IuCheck \/ IuChunk \/ IuFinish

SpecUpdate == Init /\ [][NextUpdate]_vars

\* ------------------------------------------------------------------ claims
\* the force-termination commands issued so far
Kills == SelectSeq(effects, LAMBDA e : e.kind = "kill")

\* the effects of one handler (of one run of it)
EffectsOf(kind, by, run) ==
    SelectSeq(effects, LAMBDA e : e.kind = kind /\ e.by = by /\ e.run = run)

\* the last close handler has finished the body of its step 3
StepThreeDone == nclose > 0 /\ cpc \in {"unlock", "idle"}

\* the running (or last) close handler ran the kill command against p
CloseKillAttempted(p) ==
    \E i \in 1..Len(effects) :
      \E ok \in BOOLEAN : effects[i] = KillEffect("close", nclose, p, ok)

\* C1: whatever close-requests (repeated or not), exit event and end of the
\* relay's stream happen, in any order and with the handlers' steps
\* interleaved, the force-termination command (taskkill / kill) is issued at
\* most once over the whole run.
C1_KillAtMostOnce == Len(Kills) <= 1

\* two close-requests, the exit event and the end of the stream have all
\* been handled, and one kill was issued
C1_Witness ==
    /\ closesDone = 2 /\ epc = "done" /\ rpc = "done"
    /\ Len(Kills) = 1

\* C2: once a close-request handler has returned, the shared handle is
\* absent, whatever it was at the start and whatever the POST did.
C2_AbsentAfterGracefulShutdown == closesDone > 0 => child_handle = None

\* a close handler found the handle present, its POST failed, and it took
\* the handle itself
C2_Witness ==
    /\ closesDone = 1 /\ cpc = "idle"
    /\ httpResult = "error" /\ IsSome(closeChild)

\* C3: the exit handler that finds the handle absent issues no kill, sends
\* no POST, does not panic, and leaves the handle absent.
C3_FinalCleanupNoOp ==
    (epc \in {"kill", "unlock", "return", "done"} /\ exitChild = None) =>
        /\ \A i \in 1..Len(effects) : effects[i].by # "exit"
        /\ child_handle = None
        /\ app # "aborted"

\* the close handler killed the backend, then the exit handler ran and
\* found nothing to do
C3_Witness ==
    /\ epc = "done" /\ exitChild = None
    /\ Len(Kills) = 1 /\ Kills[1].by = "close"

\* C4 as stated: the handle was present with pid p at step 1 and the POST
\* succeeded, so after the wait step 3 runs the kill command against p.
C4_KillAfterHttpSuccess ==
    (StepThreeDone /\ IsSome(closeSeen) /\ httpResult = "success") =>
        CloseKillAttempted(closeSeen[1])

\* C4, amended: whatever the POST did, step 3 runs the kill command against
\* p exactly when the handle is still present (Some(p)) at step 3, that is
\* when the relay task has not cleared it since step 1.
C4_KillIffStillPresent ==
    StepThreeDone =>
        /\ IsSome(closeChild) =>
              /\ closeChild = closeSeen
              /\ CloseKillAttempted(closeChild[1])
              /\ Len(EffectsOf("kill", "close", nclose)) = 1
        /\ closeChild = None =>
              EffectsOf("kill", "close", nclose) = <<>>

\* the POST succeeded and step 3 still ran the kill command
C4_Witness ==
    /\ StepThreeDone /\ httpResult = "success"
    /\ IsSome(closeSeen) /\ CloseKillAttempted(closeSeen[1])

\* C5: the close handler never holds the lock on the handle while it waits
\* for the POST or sleeps.
C5_LockFreeDuringHttpAndSleep == cpc \in {"http", "sleep"} => lock # "close"

\* C6: a failed spawn of the sidecar is not fatal, startup goes on without
\* a backend.
C6_SpawnFailureNotFatal ==
    spawnResult \in {"sidecar_err", "spawn_err"} =>
        /\ app # "aborted"
        /\ setuppc # "failed"
        /\ child_handle = None

\* C7: off Windows every force-kill is kill -9 against the negative pid,
\* the backend's process group.
C7_KillTargetsProcessGroup ==
    ~windows =>
        \A i \in 1..Len(Kills) :
            /\ Kills[i].prog = "kill"
            /\ Kills[i].args = <<"-9", "-" \o to_string(pid)>>

\* C8: cleanup_old_logs removes nothing but regular files whose extension
\* is log, every other entry stays; and whatever it met (no directory, a
\* failed lookup, a failed deletion) setup goes on to spawn the backend.
C8_CleanupOnlyLogFiles ==
    cleanupResult # "none" =>
        /\ logEntries \subseteq logs0
        /\ \A e \in logs0 \ logEntries :
              /\ e.kind = "file"
              /\ Len(e.name) > 4
              /\ SubSeq(e.name, Len(e.name) - 3, Len(e.name))
                   = <<".", "l", "o", "g">>
        /\ (spawnResult = "none" => setuppc = "spawn" /\ app = "starting")

\* a log file was deleted beside a directory named like one, the other
\* files are still there, and the backend was spawned
C8_Witness ==
    /\ cleanupResult = "Ok" /\ spawnResult = "ok"
    /\ logs0 = LogCandidates
    /\ Cardinality(logs0 \ logEntries) = 1

\* the two queries of list_printers, as the machine answers them
PrimaryFailed == ~psAvail \/ ~psSuccess
FallbackFailed == ~wmicAvail

\* C9: on Windows, when powershell cannot be run and wmic can, list_printers
\* returns Ok with the names wmic printed (blank lines and the Name header
\* left out); and it returns an error only if both queries failed.
C9_FallbackWhenPrimaryMissing ==
    (lpc = "done" /\ windows) =>
        /\ (~psAvail /\ wmicAvail) =>
              lpResult = Ok(ParseFallback(wmicStdout))
        /\ ~lpResult.ok => (PrimaryFailed /\ FallbackFailed)

\* C10: on Windows, whenever print_text returns after it wrote the
\* temporary file, the file is gone, and the result is an error exactly
\* when the pipeline did not report success (a failed launch included).
C10_TempFileDeletedErrIffPrintFailed ==
    (ptc = "done" /\ windows /\ ptWritten) =>
        /\ ptPath \notin tmpFiles
        /\ (~ptResult.ok <=> ptStatus # "success")

\* the results install_update can return
IuRestart == StatusOk("Update installed. Please restart the app.")
IuNothing == StatusOk("No update available to install.")
IuErrors ==
    { StatusErr("Failed to get updater: <e>"),
      StatusErr("Failed to check for updates: <e>"),
      StatusErr("Failed to download/install update: <e>") }

\* download_and_install was called
IuDownloadCalled == iuc = "download" \/ iuInstall # "none" \/ downloaded > 0

\* C11 as stated: the check comes first and download-and-install is called
\* only when it reports an update; install_update returns either the status
\* that tells the user to restart or an error string, nothing else; and the
\* application stays up.
C11_RestartStatusOrError ==
    /\ IuDownloadCalled => iuCheck = "update"
    /\ iuc = "done" => (iuResult = IuRestart \/ iuResult \in IuErrors)
    /\ iuc # "idle" => app = "running"

\* C11, amended: there is a third result, the status "No update available
\* to install." that is returned exactly when the check reports no update;
\* the restart status is returned exactly when the check reported an update
\* and download-and-install succeeded, an error string in every other case.
C11_RestartNothingOrError ==
    /\ IuDownloadCalled => (iuUpdater /\ iuCheck = "update")
    /\ iuCheck # "none" => iuUpdater
    /\ iuc = "done" =>
         /\ iuResult \in {IuRestart, IuNothing} \cup IuErrors
         /\ iuResult = IuRestart <=>
              (iuCheck = "update" /\ iuInstall = "ok")
         /\ iuResult = IuNothing <=> iuCheck = "uptodate"
         /\ ~iuResult.ok <=>
              (~iuUpdater \/ iuCheck = "err" \/ iuInstall = "err")
    /\ iuc # "idle" => app = "running"

\* an update was found, downloaded in two chunks and installed
C11_Witness ==
    /\ iuc = "done" /\ iuCheck = "update" /\ downloaded = 3
    /\ iuResult = IuRestart

\* the positions in `effects` of the effects of one kind of close run r
CloseIdx(kind, r) ==
    {i \in 1..Len(effects) :
       /\ effects[i].kind = kind
       /\ effects[i].by = "close"
       /\ effects[i].run = r}

\* close run r is past its grace wait
PastWait(r) == r < nclose \/ cpc \in {"step3", "kill", "unlock", "idle"}

\* C12: every run of the close handler waits the grace period exactly once
\* (handle present or not at step 1, backend alive or not), a force-kill of
\* the run comes after its wait, and a run that has begun is not abandoned:
\* the application does not exit under it.
C12_GraceWaitOnceBeforeKill ==
    /\ \A r \in 1..nclose :
         /\ Cardinality(CloseIdx("sleep", r)) = IF PastWait(r) THEN 1 ELSE 0
         /\ \A i \in CloseIdx("sleep", r) :
              /\ effects[i].args = <<to_string(GraceSecs)>>
              /\ effects[i].outcome = "done"
         /\ \A k \in CloseIdx("kill", r) :
              \E i \in CloseIdx("sleep", r) : i < k
    /\ closesDone = IF cpc = "idle" THEN nclose ELSE nclose - 1
    /\ cpc # "idle" => (app = "running" /\ epc = "idle")

\* a first run waited and then killed the backend; a second run found the
\* handle absent and the backend gone, and waited all the same
C12_Witness ==
    /\ closesDone = 2 /\ closeSeen = None /\ backend = "exited"
    /\ Cardinality(CloseIdx("kill", 1)) = 1
    /\ Cardinality(CloseIdx("sleep", 2)) = 1

\* C13: a POST is sent by the close handler alone (never by the exit
\* handler or the relay task), to the shutdown endpoint, at most once per
\* close-request, and exactly when step 1 saw the handle present; after a
\* POST that failed or timed out the wait and step 3 are still carried out.
C13_PostOnlyByCloseWhenPresent ==
    /\ \A i \in 1..Len(effects) :
         effects[i].kind = "post" =>
           /\ effects[i].by = "close"
           /\ effects[i].args[1] = ShutdownUrl
    /\ \A r \in 1..nclose : Cardinality(CloseIdx("post", r)) <= 1
    /\ nclose > 0 =>
         Cardinality(CloseIdx("post", nclose)) =
           IF IsSome(closeSeen) /\ cpc # "http" THEN 1 ELSE 0
    /\ (StepThreeDone /\ httpResult \in {"error", "timeout"}) =>
         /\ Cardinality(CloseIdx("sleep", nclose)) = 1
         /\ IsSome(closeChild) => CloseKillAttempted(closeChild[1])
         /\ child_handle = None

\* the first close-request's POST failed and the backend was killed after
\* the wait; the second close-request found the handle absent and sent
\* nothing
C13_Witness ==
    /\ closesDone = 2 /\ closeSeen = None
    /\ \E i \in CloseIdx("post", 1) : effects[i].outcome = "error"
    /\ Cardinality(CloseIdx("kill", 1)) = 1
    /\ CloseIdx("post", 2) = {}

\* C14: the relay task's clear, made once the stream has ended, leaves the
\* handle absent and issues nothing (no kill, no POST); and from then on
\* the handle stays absent, step 3 of a close handler and the exit handler
\* take nothing, and no force-kill is issued any more.
C14_RelayClearsNeverKills ==
    [][ /\ (rpc = "clear" /\ rpc' = "done") =>
              /\ rx = <<>> /\ ~txOpen
              /\ child_handle' = None
              /\ effects' = effects
        /\ rpc = "done" =>
              /\ child_handle' = None
              /\ Kills' = Kills
              /\ (cpc = "step3" /\ cpc' = "kill") => closeChild' = None
              /\ (epc = "take" /\ epc' = "kill") => exitChild' = None
      ]_vars

\* the backend ended by itself and the relay task cleared the handle; the
\* close handler and the exit handler ran afterwards, found the handle
\* absent and killed nothing
C14_Witness ==
    /\ spawnResult = "ok" /\ rpc = "done"
    /\ nclose = 1 /\ closesDone = 1 /\ closeSeen = None /\ closeChild = None
    /\ epc = "done" /\ exitChild = None
    /\ Kills = <<>>

\* what the exit handler has issued
ExitEffects == SelectSeq(effects, LAMBDA e : e.by = "exit")

\* C15: the exit handler that finds the handle present takes it, leaves it
\* absent and runs the kill command exactly once, against the pid stored at
\* startup, with no POST and no wait of its own; when no close-request came
\* before it, that kill is the only thing issued in the whole run.
C15_FinalCleanupKillsOnce ==
    (epc \in {"kill", "unlock", "return", "done"} /\ IsSome(exitChild)) =>
        /\ exitChild = Some(pid)
        /\ child_handle = None
        /\ epc = "kill" => ExitEffects = <<>>
        /\ epc # "kill" =>
             /\ Len(ExitEffects) = 1
             /\ \E ok \in BOOLEAN :
                  ExitEffects[1] = KillEffect("exit", 0, pid, ok)
             /\ Len(Kills) = 1
        /\ (nclose = 0 /\ epc # "kill") => Len(effects) = 1

\* the exit event came with no close-request before it, and the exit
\* handler killed the running backend
C15_Witness ==
    /\ epc = "done" /\ nclose = 0 /\ exitChild = Some(pid)
    /\ Len(effects) = 1 /\ effects[1].by = "exit"
    /\ effects[1].outcome = "ok"

\* C16: a step that handles a focus change or the exit-requested event
\* (it writes its log line) leaves the handle, the lock, the backend, the
\* relay task, both shutdown handlers and everything issued so far as they
\* were: no kill, no POST, whatever the state it is handled in.
C16_LogOnlyArms ==
    [][ lastLog' # lastLog =>
          /\ lastLog' \in {"Window focused", "Window unfocused",
                           "Exit requested"}
          /\ child_handle' = child_handle
          /\ lock' = lock
          /\ effects' = effects
          /\ UNCHANGED <<fsVars, setupVars, backendVars, closeVars,
                         exitVars, rpc>>
      ]_vars

\* the exit-requested event was handled while the handle was present and
\* the backend running, and nothing was issued
C16_Witness ==
    /\ lastLog = "Exit requested"
    /\ child_handle = Some(pid) /\ backend = "running"
    /\ effects = <<>>

\* C17: the handle goes from absent to present in one step only, the store
\* of startup, which happens once, before the relay task exists and before
\* the event loop hands events to the close and exit handlers; a present
\* handle changes only to absent; so once it is absent after the store it
\* stays absent.
C17_AbsentSpawnedAbsent ==
    [][ /\ (child_handle = None /\ child_handle' # None) =>
              /\ spawnResult = "none" /\ spawnResult' = "ok"
              /\ child_handle' = Some(pid')
              /\ app = "starting" /\ rpc = "none"
              /\ nclose = 0 /\ epc = "idle"
        /\ child_handle # None => child_handle' \in {child_handle, None}
        /\ spawnResult # "none" => spawnResult' = spawnResult
        /\ (rpc' # "none" \/ app' = "running") => spawnResult' = "ok"
      ]_vars

\* the handle was stored, the relay task cleared it, and two close-requests
\* and the exit event were handled after that
C17_Witness ==
    /\ spawnResult = "ok" /\ child_handle = None
    /\ rpc = "done" /\ closesDone = 2 /\ epc = "done"

\* the kill command has been run against the stored pid
KillIssued ==
    \E i \in 1..Len(effects), ok \in BOOLEAN, by \in {"close", "exit"} :
      effects[i] = KillEffect(by, effects[i].run, pid, ok)

\* the backend's side of the event stream is closed
StreamEnded == backend = "exited" /\ ~txOpen

\* a shutdown handler has completed
ShutdownCompleted == closesDone > 0 \/ epc \in {"return", "done"}

\* C18 as stated: in every state after the store, an absent handle means
\* that the kill command has been run against the stored pid or that the
\* backend's event stream has ended; so after a completed close or exit
\* handler the backend is not running, stream open, with no kill issued.
C18_AbsentMeansKilledOrEnded ==
    /\ (spawnResult = "ok" /\ child_handle = None) =>
          (KillIssued \/ StreamEnded)
    /\ ShutdownCompleted => (KillIssued \/ StreamEnded)

\* C18, amended: the same in every state in which no shutdown handler
\* holds the lock; a handler that has taken the handle holds the lock until
\* its kill command has been run, and between its take and that command
\* the handle is absent with no kill issued yet and the stream still open.
C18_AbsentMeansKilledOrEndedUnlocked ==
    /\ (spawnResult = "ok" /\ child_handle = None /\ lock = "free") =>
          (KillIssued \/ StreamEnded)
    /\ (spawnResult = "ok" /\ child_handle = None /\ lock # "free") =>
          \/ KillIssued \/ StreamEnded
          \/ (lock = "close" /\ cpc = "kill" /\ closeChild = Some(pid))
          \/ (lock = "exit" /\ epc = "kill" /\ exitChild = Some(pid))
    /\ ShutdownCompleted => (KillIssued \/ StreamEnded)

\* the close handler took the handle and its kill command failed: the
\* handle is absent, the kill was issued, the backend still runs
C18_Witness ==
    /\ closesDone = 1 /\ child_handle = None /\ lock = "free"
    /\ Len(Kills) = 1 /\ Kills[1].outcome = "failed"
    /\ backend = "running" /\ txOpen

\* C19: the kill command is never run once the backend's process has
\* ended: when the backend exits by itself, the relay task's clear comes
\* before step 3 of a close handler or the exit handler can take the handle.
C19_NoKillAfterBackendExit ==
    [][ Len(Kills') > Len(Kills) => backend = "running" ]_vars

\* a close handler is running; the exit handler is running; the relay task
\* of the running application has the end of the stream before it
CloseRunning == cpc # "idle"
ExitRunning == epc \notin {"idle", "done"}
RelayAtStreamEnd == app = "running" /\ rpc \in {"recv", "clear"} /\ ~txOpen

\* C20 as stated: with the POST returning and every task weakly fair,
\* every close handler that has started returns, every exit handler that
\* has started returns, and once the backend's event stream has ended the
\* relay task gets the lock and completes its clear.
C20_AllTerminate ==
    /\ CloseRunning ~> cpc = "idle"
    /\ ExitRunning ~> epc = "done"
    /\ RelayAtStreamEnd ~> rpc = "done"

\* C20, amended: the relay task completes its clear unless the application
\* exits first; the return of the exit handler ends the process, and the
\* relay task with it, whether or not the task has made its clear.  No
\* handler or task waits for a lock whose holder cannot go on.
C20_AllTerminateOrExit ==
    /\ CloseRunning ~> cpc = "idle"
    /\ ExitRunning ~> epc = "done"
    /\ RelayAtStreamEnd ~> (rpc = "done" \/ app = "exited")
    /\ [](lock = "close" => cpc \in {"http", "kill", "unlock"})
    /\ [](lock = "exit" => epc \in {"kill", "unlock"})

\* the relay task waited for the lock while the close handler sent its
\* POST, and made its clear after that; the close handler and the exit
\* handler both returned
C20_Witness ==
    /\ rpc = "done" /\ closesDone = 1 /\ epc = "done"
    /\ httpResult = "success" /\ IsSome(closeSeen) /\ closeChild = None

====
